---- MODULE Spec2Model ----
\* Model of src/signal_detector.py: the vertical-symmetry score, the
\* morphological mask cleaner, 8-connected labeling and the detection loop of
\* find_signals.
EXTENDS Integers, Sequences, FiniteSets, TLC

VARIABLES pc, mask, min_area, labeled_mask, regions, idx, region_mask,
          detections, sym_score, once, twice

vars == <<pc, mask, min_area, labeled_mask, regions, idx, region_mask,
          detections, sym_score, once, twice>>

\* ---------------------------------------------------------------- bounds
\* sub-masks of every shape with at most this many cells are enumerated
\* exhaustively for the symmetry scorer
SymMaxCells == 12
\* largest right triangle handed to the symmetry scorer
MaxTri == 6
\* images handed to the pipeline are a 3 x 3 layout of blocks: border blocks
\* are Edge cells thick, the middle block is Gap cells thick
Edge == 2
Gap == 3
\* masks of every shape with at most this many cells are enumerated
\* exhaustively for the mask cleaner
CleanMaxCells == 9

\* ---------------------------------------------------------------- arrays
\* A 2-D numpy array: shape (height, width) and one value per cell.
\* Cell (r, c), counted from 0 as in the source, is at[r + 1][c + 1].
Grid(h, w) == (0 .. h - 1) \X (0 .. w - 1)

\* the array of shape (h, w) whose cell (r, c) is f[<<r, c>>]
Array(h, w, f) ==
  LET RECURSIVE Row(_, _)
      Row(r, n) == IF n = 0 THEN <<>> ELSE Append(Row(r, n - 1), f[<<r, n - 1>>])
      RECURSIVE Rows(_)
      Rows(n) == IF n = 0 THEN <<>> ELSE Append(Rows(n - 1), Row(n - 1, w))
  IN [height |-> h, width |-> w, at |-> Rows(h)]

\* array[r, c]
At(m, r, c) == m.at[r + 1][c + 1]

\* the index set of an array
Cells(m) == Grid(m.height, m.width)

\* mask[:, lo:hi]
Cols(m, lo, hi) ==
  Array(m.height, hi - lo, [<<r, c>> \in Grid(m.height, hi - lo) |-> At(m, r, c + lo)])

\* np.fliplr
fliplr(m) ==
  Array(m.height, m.width, [<<r, c>> \in Cells(m) |-> At(m, r, m.width - 1 - c)])

\* np.logical_and / np.logical_or: a cell is truthy when it is non-zero
logical_and(a, b) ==
  Array(a.height, a.width, [<<r, c>> \in Cells(a) |-> At(a, r, c) # 0 /\ At(b, r, c) # 0])

logical_or(a, b) ==
  Array(a.height, a.width, [<<r, c>> \in Cells(a) |-> At(a, r, c) # 0 \/ At(b, r, c) # 0])

\* np.sum of a boolean array
np_sum(b) == Cardinality({p \in Cells(b) : At(b, p[1], p[2])})

\* A Python float that is the quotient of two integers; den = 0 is a
\* ZeroDivisionError (numpy: nan/inf with a warning).
Float(n, d) == [num |-> n, den |-> d]

\* ---------------------------------------------------- symmetry scorer
\* the same function without the union == 0 branch
calculate_vertical_symmetry_no_union_guard(m) ==
  LET width == m.width IN
  IF width < 2 THEN Float(0, 1)
  ELSE
    LET mid_point == width \div 2
        left0 == Cols(m, 0, mid_point)
        right0 == Cols(m, mid_point, width)
        left_half == IF left0.width > right0.width
                     THEN Cols(left0, 0, right0.width) ELSE left0
        right_half == IF left0.width > right0.width THEN right0
                      ELSE IF right0.width > left0.width
                           THEN Cols(right0, 0, left0.width) ELSE right0
        flipped_right_half == fliplr(right_half)
        intersection == np_sum(logical_and(left_half, flipped_right_half))
        union == np_sum(logical_or(left_half, flipped_right_half))
    IN Float(intersection, union)

\* the same function with the width test off by one (width < 1)
calculate_vertical_symmetry_width_lt_1(m) ==
  LET width == m.width IN
  IF width < 1 THEN Float(0, 1)
  ELSE
    LET mid_point == width \div 2
        left0 == Cols(m, 0, mid_point)
        right0 == Cols(m, mid_point, width)
        left_half == IF left0.width > right0.width
                     THEN Cols(left0, 0, right0.width) ELSE left0
        right_half == IF left0.width > right0.width THEN right0
                      ELSE IF right0.width > left0.width
                           THEN Cols(right0, 0, left0.width) ELSE right0
        flipped_right_half == fliplr(right_half)
        intersection == np_sum(logical_and(left_half, flipped_right_half))
        union == np_sum(logical_or(left_half, flipped_right_half))
    IN IF union = 0 THEN Float(1, 1) ELSE Float(intersection, union)

\* the same function returning 0.0 for an empty union
calculate_vertical_symmetry_empty_is_zero(m) ==
  LET width == m.width IN
  IF width < 2 THEN Float(0, 1)
  ELSE
    LET mid_point == width \div 2
        left0 == Cols(m, 0, mid_point)
        right0 == Cols(m, mid_point, width)
        left_half == IF left0.width > right0.width
                     THEN Cols(left0, 0, right0.width) ELSE left0
        right_half == IF left0.width > right0.width THEN right0
                      ELSE IF right0.width > left0.width
                           THEN Cols(right0, 0, left0.width) ELSE right0
        flipped_right_half == fliplr(right_half)
        intersection == np_sum(logical_and(left_half, flipped_right_half))
        union == np_sum(logical_or(left_half, flipped_right_half))
    IN IF union = 0 THEN Float(0, 1) ELSE Float(intersection, union)

\* calculate_vertical_symmetry(mask)
calculate_vertical_symmetry(m) ==
  LET width == m.width IN
  IF width < 2 THEN Float(0, 1)
  ELSE
    LET mid_point == width \div 2
        left0 == Cols(m, 0, mid_point)
        right0 == Cols(m, mid_point, width)
        left_half == IF left0.width > right0.width
                     THEN Cols(left0, 0, right0.width) ELSE left0
        right_half == IF left0.width > right0.width THEN right0
                      ELSE IF right0.width > left0.width
                           THEN Cols(right0, 0, left0.width) ELSE right0
        flipped_right_half == fliplr(right_half)
        intersection == np_sum(logical_and(left_half, flipped_right_half))
        union == np_sum(logical_or(left_half, flipped_right_half))
    IN IF union = 0 THEN Float(1, 1) ELSE Float(intersection, union)

\* ------------------------------------------- inputs of the symmetry scorer
\* m is a uint8 mask with cells 0 / 255 of some shape (h, w) with sides in
\* lo .. n and at most n cells
IsMaskUpTo(m, lo, n) ==
  \E h \in lo .. n, w \in lo .. n :
    /\ h * w <= n
    /\ \E f \in [Grid(h, w) -> {0, 255}] : m = Array(h, w, f)

\* the four filled right triangles with legs on the edges of an n x n box
Triangle(n, o) ==
  Array(n, n, [<<r, c>> \in Grid(n, n) |->
    IF (CASE o = 1 -> c <= r
          [] o = 2 -> c >= r
          [] o = 3 -> r + c <= n - 1
          [] OTHER -> r + c >= n - 1) THEN 255 ELSE 0])

Triangles == { Triangle(n, o) : n \in 2 .. MaxTri, o \in 1 .. 4 }

None == [height |-> 0, width |-> 0, at |-> <<>>]
Pending == Float(0, 0)

\* ------------------------------------------------ specification: scorer
InitSym ==
  /\ pc = "sym_call"
  /\ \/ IsMaskUpTo(region_mask, 0, SymMaxCells)
     \/ region_mask \in Triangles
  /\ sym_score = Pending
  /\ mask = None /\ min_area = 0 /\ labeled_mask = None /\ regions = <<>>
  /\ idx = 0 /\ detections = <<>> /\ once = None /\ twice = None

SymCall ==
  /\ pc = "sym_call"
  /\ sym_score' = calculate_vertical_symmetry(region_mask)
  /\ pc' = "sym_done"
  /\ UNCHANGED <<mask, min_area, labeled_mask, regions, idx, region_mask,
                 detections, once, twice>>

NextSym == SymCall

SpecSym == InitSym /\ [][NextSym]_vars

\* ------------------------------------------------ claims about the scorer
Scored == pc = "sym_done"

Foreground(m) == {p \in Cells(m) : At(m, p[1], p[2]) # 0}

\* score s equals the real number n / d
IsValue(s, n, d) == s.den # 0 /\ s.num * d = n * s.den

\* cell (r, c) equals cell (r, width-1-c) everywhere
IsMirror(m) ==
  \A p \in Cells(m) :
    (At(m, p[1], p[2]) # 0) <=> (At(m, p[1], m.width - 1 - p[2]) # 0)

\* IoU of the left half against the mirror about the true midline:
\* column i against column width-1-i for i in [0, width \div 2)
MidlineIoU(m) ==
  LET half == (0 .. m.height - 1) \X (0 .. (m.width \div 2) - 1)
      L(p) == At(m, p[1], p[2]) # 0
      R(p) == At(m, p[1], m.width - 1 - p[2]) # 0
      i == Cardinality({p \in half : L(p) /\ R(p)})
      u == Cardinality({p \in half : L(p) \/ R(p)})
  IN IF u = 0 THEN Float(1, 1) ELSE Float(i, u)

\* C1: for every sub-mask (any height and width, width 0 and 1, all-background
\* and all-foreground included) the returned score s satisfies 0.0 <= s <= 1.0
\* and is never the result of a division by zero.
C1_SymmetryBounds ==
  Scored => /\ sym_score.den > 0
            /\ 0 <= sym_score.num
            /\ sym_score.num <= sym_score.den

\* a score strictly between 0 and 1 has been returned by the division
C1_Witness ==
  /\ Scored /\ region_mask.width >= 2
  /\ 0 < sym_score.num /\ sym_score.num < sym_score.den

\* C2: every sub-mask of width >= 2 (even or odd) that is its own mirror image
\* about the vertical midline scores exactly 1.0.
C2_PerfectSymmetry ==
  (Scored /\ region_mask.width >= 2 /\ IsMirror(region_mask))
    => IsValue(sym_score, 1, 1)

\* C3 as stated: every all-background sub-mask, whatever its height and
\* width, scores 1.0.
C3_EmptyAnyWidth ==
  (Scored /\ Foreground(region_mask) = {}) => IsValue(sym_score, 1, 1)

\* C3 amended: every all-background sub-mask of width >= 2, whatever its
\* height, scores 1.0 (narrower masks score 0.0 by the width test).
C3_EmptyWideMask ==
  (Scored /\ Foreground(region_mask) = {} /\ region_mask.width >= 2)
    => IsValue(sym_score, 1, 1)

\* an all-background mask with cells and width >= 2 has been scored
C3_Witness ==
  /\ Scored /\ Foreground(region_mask) = {}
  /\ region_mask.width >= 2 /\ region_mask.height >= 1
  /\ sym_score = Float(1, 1)

\* C4: every sub-mask of width 0 or 1 scores 0.0, whatever its height and
\* whichever cells are foreground.
C4_NarrowIsZero ==
  (Scored /\ region_mask.width < 2) => IsValue(sym_score, 0, 1)

\* a one-column mask with a foreground cell has been scored 0.0
C4_Witness ==
  /\ Scored /\ region_mask.width = 1 /\ Foreground(region_mask) # {}
  /\ sym_score = Float(0, 1)

\* C8: every filled right triangle with legs on the edges of an n x n box
\* (n >= 2, all four orientations) scores strictly less than 0.5.
C8_TriangleBelowHalf ==
  (Scored /\ region_mask \in Triangles) => 2 * sym_score.num < sym_score.den

\* C9: for odd width w >= 3 the score is the IoU that compares column i with
\* column w-1-i for i in [0, w \div 2); the centre column has no influence.
C9_OddWidthDropsCentre ==
  (Scored /\ region_mask.width >= 3 /\ region_mask.width % 2 = 1)
    => IsValue(sym_score, MidlineIoU(region_mask).num, MidlineIoU(region_mask).den)

\* ================================================================ pipeline
\* ---------------------------------------------------------- mask cleaner
Min(S) == CHOOSE x \in S : \A y \in S : x <= y
Max(S) == CHOOSE x \in S : \A y \in S : x >= y

\* cells of the image under the 3x3 kernel anchored at (r, c); cells outside
\* the image take cv2's default border value, which never wins the min of an
\* erosion nor the max of a dilation
Window(m, r, c) ==
  {q \in (r - 1 .. r + 1) \X (c - 1 .. c + 1) : q \in Cells(m)}

\* an erosion whose border cells count as background
erode_zero_border(m) ==
  Array(m.height, m.width, [<<r, c>> \in Cells(m) |->
    IF r = 0 \/ c = 0 \/ r = m.height - 1 \/ c = m.width - 1 THEN 0
    ELSE Min({At(m, q[1], q[2]) : q \in Window(m, r, c)})])

\* cv2.erode with np.ones((3,3)), one iteration
erode(m) ==
  Array(m.height, m.width, [<<r, c>> \in Cells(m) |->
    Min({At(m, q[1], q[2]) : q \in Window(m, r, c)})])

\* cv2.dilate with np.ones((3,3)), one iteration
dilate(m) ==
  Array(m.height, m.width, [<<r, c>> \in Cells(m) |->
    Max({At(m, q[1], q[2]) : q \in Window(m, r, c)})])

\* cv2.morphologyEx(mask, op, kernel, iterations=1)
morphologyEx(m, op) ==
  IF op = "MORPH_OPEN" THEN dilate(erode(m)) ELSE erode(dilate(m))

\* the two cleaning statements of find_signals
clean(m) == morphologyEx(morphologyEx(m, "MORPH_OPEN"), "MORPH_CLOSE")

\* ------------------------------------------------------------- labeling
Adjacent8(p, q) == p # q /\ p[1] - q[1] \in {-1, 0, 1} /\ p[2] - q[2] \in {-1, 0, 1}

\* raster (row-major) order of cells
Before(p, q) == p[1] < q[1] \/ (p[1] = q[1] /\ p[2] < q[2])
First(S) == CHOOSE p \in S : \A q \in S : p = q \/ Before(p, q)

\* the cells of fg connected to S through 8-neighbours
RECURSIVE Grow(_, _)
Grow(S, fg) ==
  LET T == S \cup {p \in fg : \E q \in S : Adjacent8(p, q)}
  IN IF T = S THEN S ELSE Grow(T, fg)

\* the connected components, in raster order of each one's first cell
RECURSIVE ComponentsOf(_)
ComponentsOf(fg) ==
  IF fg = {} THEN <<>>
  ELSE LET comp == Grow({First(fg)}, fg)
       IN <<comp>> \o ComponentsOf(fg \ comp)

\* skimage.measure.label(mask): background 0, full (8-) connectivity,
\* labels 1, 2, ... in raster order
label(m) ==
  LET comps == ComponentsOf({p \in Cells(m) : At(m, p[1], p[2]) # 0})
  IN Array(m.height, m.width, [<<r, c>> \in Cells(m) |->
       IF \E k \in 1 .. Len(comps) : <<r, c>> \in comps[k]
       THEN CHOOSE k \in 1 .. Len(comps) : <<r, c>> \in comps[k]
       ELSE 0])

RECURSIVE SumOf(_, _)
SumOf(S, k) ==
  IF S = {} THEN 0
  ELSE LET p == CHOOSE x \in S : TRUE IN p[k] + SumOf(S \ {p}, k)

\* a region whose area is the area of its bounding box
RegionOfBoxArea(lm, l) ==
  LET cells == {p \in Cells(lm) : At(lm, p[1], p[2]) = l}
      rows == {p[1] : p \in cells}
      cols == {p[2] : p \in cells}
  IN [label |-> l,
      area |-> (Max(rows) + 1 - Min(rows)) * (Max(cols) + 1 - Min(cols)),
      bbox |-> <<Min(rows), Min(cols), Max(rows) + 1, Max(cols) + 1>>,
      centroid |-> <<Float(SumOf(cells, 1), Cardinality(cells)),
                     Float(SumOf(cells, 2), Cardinality(cells))>>]

\* one skimage RegionProperties: label, area, bbox (half-open), centroid
Region(lm, l) ==
  LET cells == {p \in Cells(lm) : At(lm, p[1], p[2]) = l}
      rows == {p[1] : p \in cells}
      cols == {p[2] : p \in cells}
  IN [label |-> l,
      area |-> Cardinality(cells),
      bbox |-> <<Min(rows), Min(cols), Max(rows) + 1, Max(cols) + 1>>,
      centroid |-> <<Float(SumOf(cells, 1), Cardinality(cells)),
                     Float(SumOf(cells, 2), Cardinality(cells))>>]

\* skimage.measure.regionprops(labeled_mask): one region per label, in
\* increasing label order
regionprops(lm) ==
  LET n == Max({0} \cup {At(lm, p[1], p[2]) : p \in Cells(lm)})
  IN [l \in 1 .. n |-> Region(lm, l)]

\* --------------------------------------------------------- detection loop
\* the area filter with a strict comparison
QualifiesStrict(region, threshold) == region.area > threshold

\* region.area >= min_area
Qualifies(region, threshold) == region.area >= threshold

\* the bounding-box crop of the whole foreground, other components included
region_mask_of_any_label(lm, region) ==
  LET minr == region.bbox[1]
      minc == region.bbox[2]
      maxr == region.bbox[3]
      maxc == region.bbox[4]
  IN Array(maxr - minr, maxc - minc, [<<r, c>> \in Grid(maxr - minr, maxc - minc) |->
       IF At(lm, minr + r, minc + c) # 0 THEN 255 ELSE 0])

\* (labeled_mask[minr:maxr, minc:maxc] == region.label).astype(np.uint8) * 255
region_mask_of(lm, region) ==
  LET minr == region.bbox[1]
      minc == region.bbox[2]
      maxr == region.bbox[3]
      maxc == region.bbox[4]
  IN Array(maxr - minr, maxc - minc, [<<r, c>> \in Grid(maxr - minr, maxc - minc) |->
       IF At(lm, minr + r, minc + c) = region.label THEN 255 ELSE 0])

\* int(x) of a non-negative float
int(x) == x.num \div x.den

\* the dictionary appended to detections
Detection(region, score) ==
  [location |-> <<int(region.centroid[2]), int(region.centroid[1])>>,
   bounding_box |-> <<region.bbox[2], region.bbox[1],
                      region.bbox[4] - region.bbox[2],
                      region.bbox[3] - region.bbox[1]>>,
   symmetry_score |-> score,
   area |-> region.area]

\* default of the min_area parameter
DefaultMinArea == 100

\* ------------------------------------------------------ pipeline inputs
Side == Edge + Gap + Edge

\* index (0, 1 or 2) of the block band a coordinate lies in
Band(x) == IF x < Edge THEN 0 ELSE IF x < Edge + Gap THEN 1 ELSE 2

Blocks == (0 .. 2) \X (0 .. 2)
Pixels == (0 .. Side - 1) \X (0 .. Side - 1)

\* a thresholded image: the blocks of B are bright, and the value of one
\* pixel (noise) is flipped; noise outside the image flips nothing
Scene(B, noise) ==
  Array(Side, Side, [<<r, c>> \in Grid(Side, Side) |->
    IF (<<Band(r), Band(c)>> \in B) # (<<r, c>> = noise) THEN 255 ELSE 0])

NoNoise == <<Side, Side>>

\* the layouts that also come with a noise pixel: no block, or a single one
NoisyLayouts == {{}} \cup {{b} : b \in Blocks}

IsScene(m) ==
  \/ \E B \in SUBSET Blocks : m = Scene(B, NoNoise)
  \/ \E B \in NoisyLayouts, n \in Pixels : m = Scene(B, n)

MinAreas == {0, Edge * Gap, DefaultMinArea}

\* ---------------------------------------------- specification: find_signals
\* the state after mask = cv2.inRange(...)
Init ==
  /\ pc = "open"
  /\ IsScene(mask)
  /\ min_area \in MinAreas
  /\ labeled_mask = None /\ regions = <<>> /\ idx = 0
  /\ region_mask = None /\ sym_score = Pending
  /\ detections = <<>> /\ once = None /\ twice = None

Open ==
  /\ pc = "open"
  /\ mask' = morphologyEx(mask, "MORPH_OPEN")
  /\ pc' = "close"
  /\ UNCHANGED <<min_area, labeled_mask, regions, idx, region_mask,
                 detections, sym_score, once, twice>>

Close ==
  /\ pc = "close"
  /\ mask' = morphologyEx(mask, "MORPH_CLOSE")
  /\ pc' = "label"
  /\ UNCHANGED <<min_area, labeled_mask, regions, idx, region_mask,
                 detections, sym_score, once, twice>>

Label ==
  /\ pc = "label"
  /\ labeled_mask' = label(mask)
  /\ regions' = regionprops(labeled_mask')
  /\ detections' = <<>>
  /\ idx' = 1
  /\ pc' = "loop"
  /\ UNCHANGED <<mask, min_area, region_mask, sym_score, once, twice>>

\* one iteration of the for loop whose region passes the area filter
Detect ==
  /\ pc = "loop" /\ idx <= Len(regions)
  /\ Qualifies(regions[idx], min_area)
  /\ region_mask' = region_mask_of(labeled_mask, regions[idx])
  /\ sym_score' = calculate_vertical_symmetry(region_mask')
  /\ detections' = Append(detections, Detection(regions[idx], sym_score'))
  /\ idx' = idx + 1
  /\ UNCHANGED <<pc, mask, min_area, labeled_mask, regions, once, twice>>

\* one iteration of the for loop whose region fails the area filter
Skip ==
  /\ pc = "loop" /\ idx <= Len(regions)
  /\ ~Qualifies(regions[idx], min_area)
  /\ idx' = idx + 1
  /\ UNCHANGED <<pc, mask, min_area, labeled_mask, regions, region_mask,
                 detections, sym_score, once, twice>>

Return ==
  /\ pc = "loop" /\ idx > Len(regions)
  /\ pc' = "done"
  /\ UNCHANGED <<mask, min_area, labeled_mask, regions, idx, region_mask,
                 detections, sym_score, once, twice>>

Next == Open \/ Close \/ Label \/ Detect \/ Skip \/ Return

Spec == Init /\ [][Next]_vars

\* ---------------------------------------------- specification: the cleaner
InitClean ==
  /\ pc = "clean_once"
  /\ \/ IsMaskUpTo(mask, 1, CleanMaxCells)
     \/ IsScene(mask)
  /\ once = None /\ twice = None
  /\ min_area = 0 /\ labeled_mask = None /\ regions = <<>> /\ idx = 0
  /\ region_mask = None /\ sym_score = Pending /\ detections = <<>>

CleanOnce ==
  /\ pc = "clean_once"
  /\ once' = clean(mask)
  /\ pc' = "clean_twice"
  /\ UNCHANGED <<mask, min_area, labeled_mask, regions, idx, region_mask,
                 detections, sym_score, twice>>

CleanTwice ==
  /\ pc = "clean_twice"
  /\ twice' = clean(once)
  /\ pc' = "clean_done"
  /\ UNCHANGED <<mask, min_area, labeled_mask, regions, idx, region_mask,
                 detections, sym_score, once>>

NextClean == CleanOnce \/ CleanTwice

SpecClean == InitClean /\ [][NextClean]_vars

\* ------------------------------------------------ claims about the cleaner
\* C6: clean(clean(M)) = clean(M) for every binary mask M, cell for cell.
C6_CleanIdempotent == pc = "clean_done" => twice = once

\* a mask that cleaning changed, but not to all-background, was cleaned twice
C6_Witness ==
  /\ pc = "clean_done" /\ once # mask /\ Foreground(once) # {}
  /\ twice = once

\* --------------------------------------------- claims about find_signals
Labeled == pc \in {"loop", "done"}

\* cells carrying label l
CellsOf(l) == {p \in Cells(labeled_mask) : At(labeled_mask, p[1], p[2]) = l}

LabelsUsed == {At(labeled_mask, p[1], p[2]) : p \in Cells(labeled_mask)} \ {0}

\* the i-th smallest element of a set of integers
Nth(S, i) == CHOOSE l \in S : Cardinality({k \in S : k < l}) = i - 1

\* (x, y, width, height) of the smallest rectangle covering a set of cells
BoxOf(S) ==
  LET rows == {p[1] : p \in S}
      cols == {p[2] : p \in S}
  IN <<Min(cols), Min(rows), Max(cols) - Min(cols) + 1, Max(rows) - Min(rows) + 1>>

RECURSIVE SumAreas(_, _)
SumAreas(rs, n) == IF n = 0 THEN 0 ELSE rs[n].area + SumAreas(rs, n - 1)

\* C5: the returned list holds exactly one record per component of area >=
\* min_area and none for a smaller one, each record's area is its component's
\* pixel count (so >= min_area), and the records are in increasing label order.
C5_FilterByArea ==
  pc = "done" =>
    LET kept == {l \in LabelsUsed : Cardinality(CellsOf(l)) >= min_area}
    IN /\ Len(detections) = Cardinality(kept)
       /\ \A i \in 1 .. Len(detections) :
            /\ detections[i].area = Cardinality(CellsOf(Nth(kept, i)))
            /\ detections[i].bounding_box = BoxOf(CellsOf(Nth(kept, i)))
            /\ detections[i].area >= min_area

\* an image with a component below the threshold and one exactly at it
C5_Witness ==
  /\ pc = "done" /\ Len(detections) >= 1 /\ Len(detections) < Len(regions)
  /\ \E i \in 1 .. Len(detections) : detections[i].area = min_area

\* C7: the components partition the foreground of the cleaned mask: a cell
\* carries a label iff it is foreground, every label belongs to exactly one
\* component, the areas add up to the number of foreground cells, and an
\* all-background mask has no component.
C7_ComponentsPartition ==
  Labeled =>
    /\ \A p \in Cells(mask) :
         (At(mask, p[1], p[2]) # 0) <=> (At(labeled_mask, p[1], p[2]) # 0)
    /\ \A p \in Foreground(mask) :
         Cardinality({k \in 1 .. Len(regions) :
                        regions[k].label = At(labeled_mask, p[1], p[2])}) = 1
    /\ SumAreas(regions, Len(regions)) = Cardinality(Foreground(mask))
    /\ (Foreground(mask) = {} => regions = <<>>)

\* a cleaned mask with two components, one of them not a rectangle
C7_Witness ==
  /\ Labeled /\ Len(regions) >= 2
  /\ \E k \in 1 .. Len(regions) :
       regions[k].area < BoxOf(CellsOf(regions[k].label))[3]
                           * BoxOf(CellsOf(regions[k].label))[4]

\* index of the region scored last
LastScored == Max({0} \cup {k \in 1 .. idx - 1 : regions[k].area >= min_area})

\* the image with every component but S removed
Isolated(S) ==
  Array(mask.height, mask.width,
        [<<r, c>> \in Cells(mask) |-> IF <<r, c>> \in S THEN 255 ELSE 0])

\* C10: the sub-mask handed to the scorer has the dimensions of the
\* component's bounding box and cell (r, c) foreground iff the labeled mask
\* carries the component's own label at (minr + r, minc + c); the recorded
\* score is the score the component gets with all other components removed
\* from the image.
C10_OwnLabelOnly ==
  (Labeled /\ LastScored > 0) =>
    LET S == CellsOf(regions[LastScored].label)
        box == BoxOf(S)
        alone == label(Isolated(S))
    IN /\ region_mask.width = box[3]
       /\ region_mask.height = box[4]
       /\ \A q \in Cells(region_mask) :
            (At(region_mask, q[1], q[2]) # 0) <=> (<<box[2] + q[1], box[1] + q[2]>> \in S)
       /\ detections[Len(detections)].symmetry_score
            = calculate_vertical_symmetry(region_mask_of(alone, regionprops(alone)[1]))

\* a scored component whose bounding box holds a cell of another component
C10_Witness ==
  /\ Labeled /\ LastScored > 0
  /\ LET S == CellsOf(regions[LastScored].label)
         box == BoxOf(S)
     IN \E p \in Foreground(mask) \ S :
          /\ p[2] - box[1] \in 0 .. box[3] - 1
          /\ p[1] - box[2] \in 0 .. box[4] - 1

====
